---- MODULE Spec2Model ----
(***************************************************************************)
(* Model of sgasser/receipt-ocr.                                           *)
(*                                                                         *)
(*   receipt_ocr.py       the extractor: one blocking POST per document,   *)
(*                        double JSON decoding, results printed at the end *)
(*   test_receipt_ocr.py  the harness: runs the extractor on every         *)
(*                        fixture and scores the fields with fuzzy rules   *)
(*                                                                         *)
(* Three specifications share the module: SpecOcr (the extractor),         *)
(* SpecHarness (the harness loop) and SpecMatch (the matching rules on     *)
(* enumerated inputs).                                                     *)
(***************************************************************************)
EXTENDS Integers, Sequences, FiniteSets, TLC

VARIABLES
    \* ---- receipt_ocr.py ----
    argv,          \* sys.argv[1:], one record per path: [exists |-> BOOLEAN]
    environ,       \* os.environ["GEMINI_API_KEY"], UNSET when not in the environment
    dotenv,        \* the .env file: [exists |-> BOOLEAN, lines |-> Seq(line)]
    o_pc,          \* position of the extractor
    o_i,           \* index of the document the list comprehension is at
    calls,         \* POSTs issued to the backend, in order
    received,      \* responses the backend gave, in order
    results,       \* values process() has returned so far
    stdout,        \* what the command printed
    o_exit,        \* exit status, RUNNING while the process is alive
    \* ---- test_receipt_ocr.py ----
    fixtures,      \* EXAMPLES: Seq([path, expected])
    h_pc,          \* position of the harness
    idx,           \* index of the fixture main() is at
    ocr,           \* how the subprocess of run_ocr ended, "none" before it ran
    result,        \* the parsed stdout of the subprocess
    checks,        \* the list test_image builds: Seq([field, actual, exp])
    ci,            \* index of the check the for loop is at
    passed,        \* test_image's counters and messages
    failed,
    errors,
    total_passed,  \* main's counters and messages
    total_failed,
    all_errors,
    h_log,         \* the "Testing:" and "FATAL:" lines printed, one record per fixture
    h_exit,        \* exit status of the harness, RUNNING while it is alive
    \* ---- the matching rules on enumerated inputs ----
    m_kind,        \* "field" or "rates": which rule the inputs are for
    m_exp,         \* expected value
    m_act,         \* actual value
    m_res          \* result of the rule, "unset" before it is applied

ocrVars == <<argv, environ, dotenv, o_pc, o_i, calls, received, results, stdout, o_exit>>
harnVars == <<fixtures, h_pc, idx, ocr, result, checks, ci, passed, failed, errors,
              total_passed, total_failed, all_errors, h_log, h_exit>>
matchVars == <<m_kind, m_exp, m_act, m_res>>

vars == <<ocrVars, harnVars, matchVars>>

\* ------------------------------------------------------------------ bounds
MaxDocs == 3
MaxEnvLines == 1

\* ------------------------------------------------------------ JSON values
JNull == [k |-> "null"]
JScalar == [k |-> "scalar"]
JObj(m) == [k |-> "obj", m |-> m]
JArr(a) == [k |-> "arr", a |-> a]

Leaf(t, n) == [type |-> t, nullable |-> n]

\* SCHEMA, receipt_ocr.py:23-78
SCHEMA ==
    [type |-> "object", properties |-> [
        receipt |-> [type |-> "object", properties |-> [
            date |-> Leaf("string", FALSE),
            number |-> Leaf("string", TRUE),
            type |-> Leaf("string", FALSE)]],
        amounts |-> [type |-> "object", properties |-> [
            gross |-> Leaf("number", FALSE),
            net |-> Leaf("number", TRUE),
            currency |-> Leaf("string", FALSE)]],
        taxes |-> [type |-> "array", items |-> [type |-> "object", properties |-> [
            rate |-> Leaf("number", FALSE),
            amount |-> Leaf("number", FALSE)]]],
        issuer |-> [type |-> "object", properties |-> [
            name |-> Leaf("string", FALSE),
            address |-> [type |-> "object", properties |-> [
                street |-> Leaf("string", TRUE),
                postal_code |-> Leaf("string", TRUE),
                city |-> Leaf("string", TRUE),
                country |-> Leaf("string", FALSE)]],
            vat_id |-> Leaf("string", TRUE),
            tax_number |-> Leaf("string", TRUE)]],
        payment |-> [type |-> "object", properties |-> [
            method |-> Leaf("string", FALSE),
            card_last_4 |-> Leaf("string", TRUE)]],
        raw_text |-> Leaf("string", FALSE)]]

\* A value the backend's constrained decoding produces for schema s: every
\* property present; nullable leaves are null when nulls is TRUE.
RECURSIVE Fill(_, _)
Fill(s, nulls) ==
    IF s.type = "object"
    THEN JObj([p \in DOMAIN s.properties |-> Fill(s.properties[p], nulls)])
    ELSE IF s.type = "array"
    THEN JArr(<<Fill(s.items, nulls)>>)
    ELSE IF s.nullable /\ nulls THEN JNull ELSE JScalar

DropKey(v, key) == JObj([p \in DOMAIN v.m \ {key} |-> v.m[p]])
SetKey(v, key, val) == JObj([p \in DOMAIN v.m \cup {key} |-> IF p = key THEN val ELSE v.m[p]])

Complete == Fill(SCHEMA, FALSE)
CompleteNulls == Fill(SCHEMA, TRUE)
MissingField == SetKey(Complete, "amounts", DropKey(Complete.m["amounts"], "net"))
MissingGroup == DropKey(Complete, "payment")
ExtraGroup == SetKey(Complete, "items", JArr(<<>>))
NotAnObject == JArr(<<JScalar>>)

\* The text of candidates[0].content.parts[0].text: JSON text of a value, or
\* text that is not JSON.
NotJsonText == [json |-> FALSE, value |-> JNull]
JsonText(v) == [json |-> TRUE, value |-> v]

PayloadTexts ==
    {JsonText(v) : v \in {Complete, CompleteNulls, MissingField, MissingGroup,
                          ExtraGroup, NotAnObject}} \cup {NotJsonText}

\* A response of the backend: the outcome of requests.post, the HTTP status
\* class, whether the body is a JSON envelope holding candidates[0]...text,
\* and that text.
Responses ==
    {[outcome |-> "timeout", status |-> "none", envelope |-> "none", text |-> NotJsonText],
     [outcome |-> "response", status |-> "error", envelope |-> "none", text |-> NotJsonText],
     [outcome |-> "response", status |-> "ok", envelope |-> "notjson", text |-> NotJsonText],
     [outcome |-> "response", status |-> "ok", envelope |-> "nocandidates", text |-> NotJsonText]}
    \cup {[outcome |-> "response", status |-> "ok", envelope |-> "ok", text |-> t] :
            t \in PayloadTexts}

\* json.loads, receipt_ocr.py:114
JsonLoadsOk(text) == text.json
JsonLoads(text) == text.value

\* -------------------------------------------------------------- credential
UNSET == "<unset>"
RUNNING == 0 - 1
NoOutput == [kind |-> "none", recs |-> <<>>]

KeyName == "GEMINI_API_KEY"
EnvLines ==
    {[name |-> KeyName, value |-> ""],
     [name |-> KeyName, value |-> "k2"],
     [name |-> "OTHER", value |-> "x"]}

\* os.environ.setdefault, receipt_ocr.py:86
SetDefault(env, value) == IF env = UNSET THEN value ELSE env

\* the loop over the lines of .env, receipt_ocr.py:84-86
RECURSIVE ReadLines(_, _)
ReadLines(env, lines) ==
    IF lines = <<>> THEN env
    ELSE ReadLines(IF Head(lines).name = KeyName
                   THEN SetDefault(env, Head(lines).value)
                   ELSE env,
                   Tail(lines))

\* os.environ after get_api_key has read .env, receipt_ocr.py:82-86
EnvironAfter(env, file) == IF file.exists THEN ReadLines(env, file.lines) ELSE env

\* `if not key: sys.exit(...)`, receipt_ocr.py:87-89
KeyMissing(key) == key = UNSET \/ key = ""

\* Mutant: the `if not key` test of get_api_key is dropped.
GetApiKeyOk_Unchecked(env, file) == TRUE

\* get_api_key() returns (does not exit), receipt_ocr.py:81-90
GetApiKeyOk(env, file) == ~KeyMissing(EnvironAfter(env, file))

\* ---------------------------------------------------------- Python values
\* Values the harness compares: None, str (a sequence of characters), int or
\* float (in hundredths, so 50.00 is 5000 and the rate 19 is 1900), list.
PNone == [k |-> "none", s |-> <<>>, n |-> 0]
PStr(s) == [k |-> "str", s |-> s, n |-> 0]
PNum(n) == [k |-> "num", s |-> <<>>, n |-> n]
PList(l) == [k |-> "list", l |-> l]

\* EXAMPLES, test_receipt_ocr.py:11-49
EXAMPLES == <<
    [path |-> "examples/ai_invoice_01.jpg",
     expected |-> [
            issuer_name |-> PStr(<<"E", "D", "E", "K", "A", " ", "M", "ü", "l", "l", "e", "r">>),
            address_city |-> PStr(<<"M", "ü", "n", "c", "h", "e", "n">>),
            address_country |-> PStr(<<"D", "E">>),
            vat_id |-> PStr(<<"D", "E", "1", "2", "3", "4", "5", "6", "7", "8", "9">>),
            receipt_number |-> PStr(<<"0", "8", "4", "7">>),
            receipt_date |-> PStr(<<"2", "0", "2", "5", "-", "1", "2", "-", "0", "3">>),
            receipt_type |-> PList(<<PStr(<<"c", "a", "s", "h", "_", "r", "e", "g", "i", "s", "t", "e", "r">>), PStr(<<"r", "e", "c", "e", "i", "p", "t">>)>>),
            amounts_gross |-> PNum(5000),
            amounts_net |-> PNum(4193),
            amounts_currency |-> PStr(<<"E", "U", "R">>),
            tax_rates |-> PList(<<PNum(1900), PNum(700)>>),
            payment_method |-> PStr(<<"c", "a", "r", "d">>),
            card_last_4 |-> PStr(<<"1", "2", "3", "4">>)]],
    [path |-> "examples/ai_receipt_02.jpg",
     expected |-> [
            issuer_name |-> PStr(<<"T", "e", "c", "h", "S", "h", "o", "p", " ", "B", "e", "r", "l", "i", "n", " ", "G", "m", "b", "H">>),
            address_city |-> PStr(<<"B", "e", "r", "l", "i", "n">>),
            address_country |-> PStr(<<"D", "E">>),
            vat_id |-> PStr(<<"D", "E", "2", "9", "8", "4", "5", "6", "7", "1", "2">>),
            tax_number |-> PStr(<<"3", "0", "/", "1", "2", "3", "/", "4", "5", "6", "7", "8">>),
            receipt_number |-> PStr(<<"R", "E", "-", "2", "0", "2", "5", "-", "0", "0", "4", "5", "2", "1">>),
            receipt_date |-> PStr(<<"2", "0", "2", "5", "-", "1", "2", "-", "0", "3">>),
            receipt_type |-> PStr(<<"i", "n", "v", "o", "i", "c", "e">>),
            amounts_gross |-> PNum(10000),
            amounts_net |-> PNum(8403),
            amounts_currency |-> PStr(<<"E", "U", "R">>),
            tax_rates |-> PList(<<PNum(1900)>>),
            payment_method |-> PStr(<<"c", "a", "r", "d">>),
            card_last_4 |-> PStr(<<"4", "8", "2", "9">>)]]>>

\* len(EXAMPLES), test_receipt_ocr.py:11
NumFixtures == 2

\* dict.get(key): None when the key is absent, test_receipt_ocr.py:85-96
Get(d, key) == IF key \in DOMAIN d THEN d[key] ELSE PNone

\* dict.get(key, default), test_receipt_ocr.py:130
GetOr(d, key, default) == IF key \in DOMAIN d THEN d[key] ELSE default

\* str.lower() on the characters the fixtures use, test_receipt_ocr.py:112
LowerMap == [A |-> "a", B |-> "b", C |-> "c", D |-> "d", E |-> "e", F |-> "f", G |-> "g", H |-> "h", I |-> "i", J |-> "j", K |-> "k", L |-> "l", M |-> "m", N |-> "n", O |-> "o", P |-> "p", Q |-> "q", R |-> "r", S |-> "s", T |-> "t", U |-> "u", V |-> "v", W |-> "w", X |-> "x", Y |-> "y", Z |-> "z"]
LowerChar(c) == IF c \in DOMAIN LowerMap THEN LowerMap[c] ELSE IF c = "Ü" THEN "ü" ELSE c
Lower(s) == [k \in 1..Len(s) |-> LowerChar(s[k])]

\* `a in b` for two str, test_receipt_ocr.py:112
StrIn(a, b) ==
    /\ Len(a) <= Len(b)
    /\ \E k \in 0..(Len(b) - Len(a)) : SubSeq(b, k + 1, k + Len(a)) = a

\* `actual in exp` for a list exp, test_receipt_ocr.py:109
InList(actual, l) == \E k \in 1..Len(l) : l[k] = actual

Abs(x) == IF x < 0 THEN -x ELSE x

\* 0.02 in hundredths, test_receipt_ocr.py:115
AmountTol == 2

\* 1 in hundredths, test_receipt_ocr.py:131
RateTol == 100

\* Mutant: the amount tolerance is inclusive.
NumClose_Inclusive(actual, exp) == Abs(actual - exp) <= AmountTol

\* abs(actual - exp) < 0.02, test_receipt_ocr.py:115
NumClose(actual, exp) == Abs(actual - exp) < AmountTol

\* Mutant: containment is tested in one direction only.
StrClose_OneWay(actual, exp) == StrIn(Lower(exp), Lower(actual))

\* exp.lower() in actual.lower() or actual.lower() in exp.lower(), test_receipt_ocr.py:112
StrClose(actual, exp) == StrIn(Lower(exp), Lower(actual)) \/ StrIn(Lower(actual), Lower(exp))

\* the if/elif chain that sets `match`, test_receipt_ocr.py:108-117
Match(actual, exp) ==
    IF exp.k = "list" THEN InList(actual, exp.l)
    ELSE IF exp.k = "str" /\ actual.k = "str" THEN StrClose(actual.s, exp.s)
    ELSE IF exp.k = "num" /\ actual.k = "num" THEN NumClose(actual.n, exp.n)
    ELSE actual = exp

\* any(abs(ar - er) < 1 for ar in actual_rates) for one er: "yes", "no", or
\* "raise" when a rate that is None is reached before a rate that matches,
\* test_receipt_ocr.py:131
RECURSIVE AnyClose(_, _)
AnyClose(rates, er) ==
    IF rates = <<>> THEN "no"
    ELSE IF Head(rates).k # "num" THEN "raise"
    ELSE IF Abs(Head(rates).n - er.n) < RateTol THEN "yes"
    ELSE AnyClose(Tail(rates), er)

\* Mutant: every actual rate must be close to the expected one.
RECURSIVE AllCovered_Every(_, _)
AllCovered_Every(rates, exps) ==
    IF exps = <<>> THEN "pass"
    ELSE IF \E k \in 1..Len(rates) : rates[k].k # "num" THEN "raise"
    ELSE IF \E k \in 1..Len(rates) : Abs(rates[k].n - Head(exps).n) >= RateTol THEN "fail"
    ELSE AllCovered_Every(rates, Tail(exps))

\* all(any(...) for er in expected_rates): "pass", "fail" or "raise",
\* test_receipt_ocr.py:131
RECURSIVE AllCovered(_, _)
AllCovered(rates, exps) ==
    IF exps = <<>> THEN "pass"
    ELSE LET a == AnyClose(rates, Head(exps))
         IN  IF a = "raise" THEN "raise"
             ELSE IF a = "no" THEN "fail"
             ELSE AllCovered(rates, Tail(exps))

\* lines 129-131 as a whole: actual_rates from result["taxes"] (absent: []),
\* expected_rates from expected["tax_rates"] (absent: []); iterating None
\* raises TypeError.
RatesOutcome(taxes, exp_rates) ==
    IF taxes.k # "list" \/ exp_rates.k # "list" THEN "raise"
    ELSE AllCovered(taxes.l, exp_rates.l)


\* --------------------------------------------------- idle values and frames
NoResult == [shape |-> "none", f |-> <<>>, taxes |-> PNone]

\* Values of the variables of a program that a specification does not run.
OcrIdle ==
    /\ argv = <<>> /\ environ = UNSET /\ dotenv = [exists |-> FALSE, lines |-> <<>>]
    /\ o_pc = "idle" /\ o_i = 0 /\ calls = <<>> /\ received = <<>> /\ results = <<>>
    /\ stdout = NoOutput /\ o_exit = RUNNING

HarnessIdle ==
    /\ fixtures = <<>> /\ h_pc = "idle" /\ idx = 0 /\ ocr = "none" /\ result = NoResult
    /\ checks = <<>> /\ ci = 0 /\ passed = 0 /\ failed = 0 /\ errors = <<>>
    /\ total_passed = 0 /\ total_failed = 0 /\ all_errors = <<>> /\ h_log = <<>>
    /\ h_exit = RUNNING

MatchIdle ==
    /\ m_kind = "idle" /\ m_exp = PNone /\ m_act = PNone /\ m_res = "unset"


\* ------------------------------------------------------------- extractor
RECURSIVE SeqsUpTo(_, _)
SeqsUpTo(S, n) ==
    IF n = 0 THEN {<<>>}
    ELSE LET shorter == SeqsUpTo(S, n - 1)
         IN  shorter \cup {Append(s, x) : s \in {t \in shorter : Len(t) = n - 1}, x \in S}

\* The extractor's steps leave the other programs' state alone.
OcrFrame == UNCHANGED <<harnVars, matchVars>>

InitOcr ==
    /\ HarnessIdle
    /\ MatchIdle
    /\ argv \in SeqsUpTo({[exists |-> TRUE], [exists |-> FALSE]}, MaxDocs)
    /\ environ \in {UNSET, "", "k1"}
    /\ dotenv \in {[exists |-> FALSE, lines |-> <<>>]}
                  \cup {[exists |-> TRUE, lines |-> l] : l \in SeqsUpTo(EnvLines, MaxEnvLines)}
    /\ o_pc = "start"
    /\ o_i = 0
    /\ calls = <<>>
    /\ received = <<>>
    /\ results = <<>>
    /\ stdout = NoOutput
    /\ o_exit = RUNNING

\* sys.exit(message) and an uncaught exception both end the process with
\* status 1 and print nothing on stdout.
Die ==
    /\ o_pc' = "exited"
    /\ o_exit' = 1
    /\ UNCHANGED <<argv, dotenv, o_i, calls, received, results, stdout>>
    /\ OcrFrame

\* receipt_ocr.py:118-119
Usage ==
    /\ o_pc = "start"
    /\ Len(argv) < 1
    /\ Die
    /\ UNCHANGED environ

\* receipt_ocr.py:121, the list comprehension starts
Begin ==
    /\ o_pc = "start"
    /\ Len(argv) >= 1
    /\ o_pc' = "process"
    /\ o_i' = 1
    /\ UNCHANGED <<argv, environ, dotenv, calls, received, results, stdout, o_exit>>
    /\ OcrFrame

\* Mutant: a missing path is skipped and the comprehension goes on.
ProcessNotFound_Skip ==
    /\ o_pc = "process"
    /\ ~argv[o_i].exists
    /\ o_i' = o_i + 1
    /\ o_pc' = IF o_i = Len(argv) THEN "print" ELSE "process"
    /\ UNCHANGED <<argv, environ, dotenv, calls, received, results, stdout, o_exit>>
    /\ OcrFrame

\* receipt_ocr.py:94-95
ProcessNotFound ==
    /\ o_pc = "process"
    /\ ~argv[o_i].exists
    /\ Die
    /\ UNCHANGED environ

\* receipt_ocr.py:100 evaluating get_api_key() before the POST, exiting at :89
ProcessNoKey ==
    /\ o_pc = "process"
    /\ argv[o_i].exists
    /\ ~GetApiKeyOk(environ, dotenv)
    /\ environ' = EnvironAfter(environ, dotenv)
    /\ Die

\* receipt_ocr.py:99-112, the request goes out
ProcessPost ==
    /\ o_pc = "process"
    /\ argv[o_i].exists
    /\ GetApiKeyOk(environ, dotenv)
    /\ environ' = EnvironAfter(environ, dotenv)
    /\ calls' = Append(calls, [doc |-> o_i, key |-> EnvironAfter(environ, dotenv)])
    /\ o_pc' = "awaiting"
    /\ UNCHANGED <<argv, dotenv, o_i, received, results, stdout, o_exit>>
    /\ OcrFrame

\* Mutant: text that is not JSON is not rejected (a result is synthesized).
ResponseAccepted_NoParse(resp) ==
    /\ resp.outcome = "response"
    /\ resp.status = "ok"
    /\ resp.envelope = "ok"

\* resp.raise_for_status() and the double decoding succeed, receipt_ocr.py:113-114
ResponseAccepted(resp) ==
    /\ resp.outcome = "response"
    /\ resp.status = "ok"
    /\ resp.envelope = "ok"
    /\ JsonLoadsOk(resp.text)

\* receipt_ocr.py:113-114 and the next iteration of :121
ProcessReturn ==
    /\ o_pc = "awaiting"
    /\ \E resp \in Responses :
        /\ ResponseAccepted(resp)
        /\ received' = Append(received, resp)
        /\ results' = Append(results, JsonLoads(resp.text))
    /\ o_i' = o_i + 1
    /\ o_pc' = IF o_i = Len(argv) THEN "print" ELSE "process"
    /\ UNCHANGED <<argv, environ, dotenv, calls, stdout, o_exit>>
    /\ OcrFrame

\* Mutant: a failed call is issued again for the same document.
ProcessRaise_Retry ==
    /\ o_pc = "awaiting"
    /\ \E resp \in Responses :
        /\ ~ResponseAccepted(resp)
        /\ received' = Append(received, resp)
    /\ calls' = Append(calls, calls[Len(calls)])
    /\ UNCHANGED <<argv, environ, dotenv, o_pc, o_i, results, stdout, o_exit>>
    /\ OcrFrame

\* requests.post raises (timeout), raise_for_status raises, resp.json() or the
\* indexing raises, or json.loads raises: uncaught, receipt_ocr.py:99-114
ProcessRaise ==
    /\ o_pc = "awaiting"
    /\ \E resp \in Responses :
        /\ ~ResponseAccepted(resp)
        /\ received' = Append(received, resp)
    /\ o_pc' = "exited"
    /\ o_exit' = 1
    /\ UNCHANGED <<argv, environ, dotenv, o_i, calls, results, stdout>>
    /\ OcrFrame

\* receipt_ocr.py:122
PrintResults ==
    /\ o_pc = "print"
    /\ stdout' = IF Len(results) = 1
                 THEN [kind |-> "single", recs |-> <<results[1]>>]
                 ELSE [kind |-> "list", recs |-> results]
    /\ o_pc' = "exited"
    /\ o_exit' = 0
    /\ UNCHANGED <<argv, environ, dotenv, o_i, calls, received, results>>
    /\ OcrFrame

NextOcr ==
    \/ Usage
    \/ Begin
    \/ ProcessNotFound
    \/ ProcessNoKey
    \/ ProcessPost
    \/ ProcessReturn
    \/ ProcessRaise
    \/ PrintResults

SpecOcr == InitOcr /\ [][NextOcr]_vars

\* The extractor is one sequential process and every POST ends within its
\* timeout (receipt_ocr.py:111), so an enabled step is eventually taken.
FairSpecOcr == SpecOcr /\ WF_vars(NextOcr)

\* ---------------------------------------------------------------- harness
\* the (field, actual, exp) triples of test_receipt_ocr.py:84-97, by the path
\* read from the result and the key read from the fixture
CheckSpec == <<
    [field |-> "issuer.name", key |-> "issuer_name"],
    [field |-> "issuer.address.city", key |-> "address_city"],
    [field |-> "issuer.address.country", key |-> "address_country"],
    [field |-> "issuer.vat_id", key |-> "vat_id"],
    [field |-> "receipt.number", key |-> "receipt_number"],
    [field |-> "receipt.date", key |-> "receipt_date"],
    [field |-> "receipt.type", key |-> "receipt_type"],
    [field |-> "amounts.gross", key |-> "amounts_gross"],
    [field |-> "amounts.net", key |-> "amounts_net"],
    [field |-> "amounts.currency", key |-> "amounts_currency"],
    [field |-> "payment.method", key |-> "payment_method"],
    [field |-> "payment.card_last_4", key |-> "card_last_4"]>>

\* test_receipt_ocr.py:101
TaxNumberSpec == [field |-> "issuer.tax_number", key |-> "tax_number"]

AllSpecs == Append(CheckSpec, TaxNumberSpec)
Fields == {AllSpecs[k].field : k \in 1..Len(AllSpecs)}
ExpectedKeys == {AllSpecs[k].key : k \in 1..Len(AllSpecs)} \cup {"tax_rates"}

\* Python truthiness of `expected.get("tax_number")`, test_receipt_ocr.py:100
Truthy(v) ==
    IF v.k = "list" THEN v.l # <<>>
    ELSE /\ v.k # "none"
         /\ v.k = "str" => v.s # <<>>
         /\ v.k = "num" => v.n # 0

\* one (field, actual, exp) triple, test_receipt_ocr.py:85
Triple(spec, res, expected) ==
    [field |-> spec.field, actual |-> res.f[spec.field], exp |-> Get(expected, spec.key)]

\* the list `checks`, test_receipt_ocr.py:84-101
BuildChecks(res, expected) ==
    LET base == [k \in 1..Len(CheckSpec) |-> Triple(CheckSpec[k], res, expected)]
    IN  IF Truthy(Get(expected, "tax_number"))
        THEN Append(base, Triple(TaxNumberSpec, res, expected))
        ELSE base

\* ---- the fixtures the harness is run on: EXAMPLES, and EXAMPLES with one
\* expectation taken away (key absent) or set to None in every fixture
WithoutKey(d, key) == [x \in DOMAIN d \ {key} |-> d[x]]
WithNull(d, key) == [x \in DOMAIN d \cup {key} |-> IF x = key THEN PNone ELSE d[x]]

FixtureSets ==
    {EXAMPLES}
    \cup {[j \in 1..NumFixtures |->
             [EXAMPLES[j] EXCEPT !.expected = WithoutKey(@, key)]] : key \in ExpectedKeys}
    \cup {[j \in 1..NumFixtures |->
             [EXAMPLES[j] EXCEPT !.expected = WithNull(@, key)]] : key \in ExpectedKeys}

\* ---- what the extractor can print for fixture j: the values on the image,
\* and the same record with one field or the taxes changed
OnImage(j, spec) ==
    LET e == Get(EXAMPLES[j].expected, spec.key)
    IN  IF e.k = "list" THEN e.l[1] ELSE e

TrueResult(j) ==
    [shape |-> "dict",
     f |-> [fld \in Fields |->
              OnImage(j, CHOOSE sp \in {AllSpecs[k] : k \in 1..Len(AllSpecs)} : sp.field = fld)],
     taxes |-> EXAMPLES[j].expected.tax_rates]

Wrong == PStr(<<"x">>)

OtherValues(v) ==
    {PNone, PStr(<<>>), Wrong}
    \cup (IF v.k = "num" THEN {PNum(v.n + 1), PNum(v.n - 2), PNum(v.n + 3)} ELSE {})
    \cup (IF v.k = "str" /\ Len(v.s) >= 2
          THEN {PStr(Lower(v.s)), PStr(SubSeq(v.s, 1, Len(v.s) - 1))} ELSE {})

ChangedFields ==
    {"issuer.name", "receipt.type", "amounts.gross", "payment.card_last_4", "issuer.tax_number"}

OtherTaxes(t) ==
    {PNone,
     PList(<<>>),
     PList(Append(t.l, PNum(0))),
     PList(SubSeq(t.l, 1, Len(t.l) - 1)),
     PList([k \in 1..Len(t.l) |-> PNum(t.l[k].n + 20)]),
     PList([k \in 1..Len(t.l) |-> PNum(t.l[k].n + 150)]),
     PList(Append(t.l, PNone)),
     PList(<<PNone>> \o t.l)}

ResultsFor(j) ==
    LET r == TrueResult(j)
    IN  {r}
        \cup UNION {{[r EXCEPT !.f[fld] = v] : v \in OtherValues(r.f[fld])} :
                      fld \in ChangedFields}
        \cup {[r EXCEPT !.f["receipt.type"] = v] :
                v \in {PStr(<<"r", "e", "c", "e", "i", "p", "t">>),
                       PStr(<<"R", "e", "c", "e", "i", "p", "t">>)}}
        \cup {[r EXCEPT !.taxes = t] : t \in OtherTaxes(r.taxes)}
        \cup {[r EXCEPT !.f = [fld \in Fields |-> PStr(<<>>)]]}
        \cup {[r EXCEPT !.shape = "nondict"], [r EXCEPT !.shape = "badgroup"]}

FatalOutcomes == {"nonzero", "timeout", "notjson"}

HarnessFrame == UNCHANGED <<ocrVars, matchVars>>

InitHarness ==
    /\ OcrIdle
    /\ MatchIdle
    /\ fixtures \in FixtureSets
    /\ h_pc = "loop"
    /\ idx = 1
    /\ ocr = "none"
    /\ result = NoResult
    /\ checks = <<>>
    /\ ci = 0
    /\ passed = 0
    /\ failed = 0
    /\ errors = <<>>
    /\ total_passed = 0
    /\ total_failed = 0
    /\ all_errors = <<>>
    /\ h_log = <<>>
    /\ h_exit = RUNNING

\* An exception nothing catches: traceback, status 1, no summary.
Crash ==
    /\ h_pc' = "crashed"
    /\ h_exit' = 1

\* main calls test_image, test_receipt_ocr.py:152-153 and 67-78
TestImageBegin ==
    /\ h_pc = "loop"
    /\ idx <= Len(fixtures)
    /\ passed' = 0
    /\ failed' = 0
    /\ errors' = <<>>
    /\ checks' = <<>>
    /\ ci' = 0
    /\ result' = NoResult
    /\ ocr' = "running"
    /\ h_log' = Append(h_log, [path |-> fixtures[idx].path, fatal |-> FALSE])
    /\ h_pc' = "run_ocr"
    /\ UNCHANGED <<fixtures, idx, total_passed, total_failed, all_errors, h_exit>>
    /\ HarnessFrame

\* Mutant: the exception of run_ocr is not caught.
RunOcrFatal_Uncaught ==
    /\ h_pc = "run_ocr"
    /\ \E o \in FatalOutcomes : ocr' = o
    /\ Crash
    /\ UNCHANGED <<fixtures, idx, result, checks, ci, passed, failed, errors,
                   total_passed, total_failed, all_errors, h_log>>
    /\ HarnessFrame

\* run_ocr raises (non-zero exit, TimeoutExpired, JSONDecodeError) and
\* test_image returns 0, 1, [str(e)], test_receipt_ocr.py:54-62 and 77-81
RunOcrFatal ==
    /\ h_pc = "run_ocr"
    /\ \E o \in FatalOutcomes :
        /\ ocr' = o
        /\ errors' = <<[field |-> "FATAL", exp |-> PNone, actual |-> PStr(<<o>>)]>>
    /\ passed' = 0
    /\ failed' = 1
    /\ h_log' = [h_log EXCEPT ![Len(h_log)].fatal = TRUE]
    /\ h_pc' = "return"
    /\ UNCHANGED <<fixtures, idx, result, checks, ci, total_passed, total_failed,
                   all_errors, h_exit>>
    /\ HarnessFrame

\* run_ocr returns the parsed output and the checks are listed,
\* test_receipt_ocr.py:78 and 84-101
RunOcrOk ==
    /\ h_pc = "run_ocr"
    /\ \E r \in ResultsFor(idx) :
        /\ r.shape = "dict"
        /\ result' = r
        /\ checks' = BuildChecks(r, fixtures[idx].expected)
    /\ ocr' = "ok"
    /\ ci' = 1
    /\ h_pc' = "checks"
    /\ UNCHANGED <<fixtures, idx, passed, failed, errors, total_passed, total_failed,
                   all_errors, h_log, h_exit>>
    /\ HarnessFrame

\* the output is JSON but not a dict, or a group of it is not a dict: .get
\* raises AttributeError while the checks are listed, test_receipt_ocr.py:85-96
RunOcrOkRaise ==
    /\ h_pc = "run_ocr"
    /\ \E r \in ResultsFor(idx) :
        /\ r.shape # "dict"
        /\ result' = r
    /\ ocr' = "ok"
    /\ Crash
    /\ UNCHANGED <<fixtures, idx, checks, ci, passed, failed, errors, total_passed,
                   total_failed, all_errors, h_log>>
    /\ HarnessFrame

\* Mutant: a check without an expectation is counted as passed.
CheckSkip_Counted ==
    /\ h_pc = "checks"
    /\ ci <= Len(checks)
    /\ checks[ci].exp = PNone
    /\ passed' = passed + 1
    /\ ci' = ci + 1
    /\ UNCHANGED <<fixtures, h_pc, idx, ocr, result, checks, failed, errors,
                   total_passed, total_failed, all_errors, h_log, h_exit>>
    /\ HarnessFrame

\* `if exp is None: continue`, test_receipt_ocr.py:103-105
CheckSkip ==
    /\ h_pc = "checks"
    /\ ci <= Len(checks)
    /\ checks[ci].exp = PNone
    /\ ci' = ci + 1
    /\ UNCHANGED <<fixtures, h_pc, idx, ocr, result, checks, passed, failed, errors,
                   total_passed, total_failed, all_errors, h_log, h_exit>>
    /\ HarnessFrame

\* one iteration of the loop over checks, test_receipt_ocr.py:103-126
CheckField ==
    /\ h_pc = "checks"
    /\ ci <= Len(checks)
    /\ checks[ci].exp # PNone
    /\ IF Match(checks[ci].actual, checks[ci].exp)
       THEN /\ passed' = passed + 1
            /\ UNCHANGED <<failed, errors>>
       ELSE /\ failed' = failed + 1
            /\ errors' = Append(errors, checks[ci])
            /\ UNCHANGED passed
    /\ ci' = ci + 1
    /\ UNCHANGED <<fixtures, h_pc, idx, ocr, result, checks, total_passed, total_failed,
                   all_errors, h_log, h_exit>>
    /\ HarnessFrame

\* expected.get("tax_rates", []), test_receipt_ocr.py:130
ExpectedRates(expected) == GetOr(expected, "tax_rates", PList(<<>>))

\* the tax-rate check and the return of test_image, test_receipt_ocr.py:128-140
CheckRates ==
    /\ h_pc = "checks"
    /\ ci > Len(checks)
    /\ LET o == RatesOutcome(result.taxes, ExpectedRates(fixtures[idx].expected))
       IN  /\ o # "raise"
           /\ IF o = "pass"
              THEN /\ passed' = passed + 1
                   /\ UNCHANGED <<failed, errors>>
              ELSE /\ failed' = failed + 1
                   /\ errors' = Append(errors,
                        [field |-> "taxes.rates", actual |-> result.taxes,
                         exp |-> ExpectedRates(fixtures[idx].expected)])
                   /\ UNCHANGED passed
    /\ h_pc' = "return"
    /\ UNCHANGED <<fixtures, idx, ocr, result, checks, ci, total_passed, total_failed,
                   all_errors, h_log, h_exit>>
    /\ HarnessFrame

\* iterating None or subtracting from None raises TypeError,
\* test_receipt_ocr.py:129-131
CheckRatesRaise ==
    /\ h_pc = "checks"
    /\ ci > Len(checks)
    /\ RatesOutcome(result.taxes, ExpectedRates(fixtures[idx].expected)) = "raise"
    /\ Crash
    /\ UNCHANGED <<fixtures, idx, ocr, result, checks, ci, passed, failed, errors,
                   total_passed, total_failed, all_errors, h_log>>
    /\ HarnessFrame

\* main adds up what test_image returned, test_receipt_ocr.py:153-156
Accumulate ==
    /\ h_pc = "return"
    /\ total_passed' = total_passed + passed
    /\ total_failed' = total_failed + failed
    /\ all_errors' = all_errors \o errors
    /\ idx' = idx + 1
    /\ h_pc' = "loop"
    /\ UNCHANGED <<fixtures, ocr, result, checks, ci, passed, failed, errors, h_log, h_exit>>
    /\ HarnessFrame

\* Mutant: the exit status is always zero.
ExitStatus_AlwaysZero(n_failed) == 0

\* `if total_failed > 0: sys.exit(1) else: sys.exit(0)`, test_receipt_ocr.py:162-169
ExitStatus(n_failed) == IF n_failed > 0 THEN 1 ELSE 0

\* the loop is over: summary and exit, test_receipt_ocr.py:158-169
Summary ==
    /\ h_pc = "loop"
    /\ idx > Len(fixtures)
    /\ h_exit' = ExitStatus(total_failed)
    /\ h_pc' = "exited"
    /\ UNCHANGED <<fixtures, idx, ocr, result, checks, ci, passed, failed, errors,
                   total_passed, total_failed, all_errors, h_log>>
    /\ HarnessFrame

NextHarness ==
    \/ TestImageBegin
    \/ RunOcrFatal
    \/ RunOcrOk
    \/ RunOcrOkRaise
    \/ CheckSkip
    \/ CheckField
    \/ CheckRates
    \/ CheckRatesRaise
    \/ Accumulate
    \/ Summary

SpecHarness == InitHarness /\ [][NextHarness]_vars


\* ------------------------------------------- matching rules, enumerated inputs
MaxStrLen == 2
MaxRates == 3
MaxExpRates == 2

Chars == {"a", "A", "b"}
Strings == SeqsUpTo(Chars, MaxStrLen)

FieldExps ==
    {PStr(x) : x \in Strings}
    \cup {PNum(5000), PNum(0)}
    \cup {PList(l) : l \in SeqsUpTo({PStr(<<"a">>), PStr(<<"A", "b">>), PNum(5000)}, 2)}

FieldActs ==
    {PNone}
    \cup {PStr(x) : x \in Strings}
    \cup {PNum(n) : n \in {0, 4997, 4998, 4999, 5000, 5001, 5002, 5003}}

\* rates in hundredths of a percentage point: 0, 7, 7.2, 8, 8.5, 19
RateValues == {PNum(0), PNum(700), PNum(720), PNum(800), PNum(850), PNum(1900)}
ExpRateLists == {PList(l) : l \in SeqsUpTo({PNum(700), PNum(1900)}, MaxExpRates)}
ActRateLists == {PList(l) : l \in SeqsUpTo(RateValues \cup {PNone}, MaxRates)}

InsertAt(l, pos, x) == SubSeq(l, 1, pos - 1) \o <<x>> \o SubSeq(l, pos, Len(l))
RemoveAt(l, pos) == SubSeq(l, 1, pos - 1) \o SubSeq(l, pos + 1, Len(l))

MatchFrame == UNCHANGED <<ocrVars, harnVars>>

InitMatch ==
    /\ OcrIdle
    /\ HarnessIdle
    /\ m_res = "unset"
    /\ \/ m_kind = "field" /\ m_exp \in FieldExps /\ m_act \in FieldActs
       \/ m_kind = "rates" /\ m_exp \in ExpRateLists /\ m_act \in ActRateLists

\* the rule of test_receipt_ocr.py:108-117 applied to one pair
ApplyMatch ==
    /\ m_kind = "field"
    /\ m_res = "unset"
    /\ m_res' = IF Match(m_act, m_exp) THEN "match" ELSE "nomatch"
    /\ UNCHANGED <<m_kind, m_exp, m_act>>
    /\ MatchFrame

\* the rule of test_receipt_ocr.py:129-131 applied to one pair of lists
ApplyRates ==
    /\ m_kind = "rates"
    /\ m_res = "unset"
    /\ m_res' = RatesOutcome(m_act, m_exp)
    /\ UNCHANGED <<m_kind, m_exp, m_act>>
    /\ MatchFrame

\* the same rule on the actual rates with one more numeric rate
AddRate ==
    /\ m_kind = "rates"
    /\ m_res # "unset"
    /\ Len(m_act.l) < MaxRates
    /\ \E x \in RateValues, pos \in 1..(Len(m_act.l) + 1) :
        /\ m_act' = PList(InsertAt(m_act.l, pos, x))
        /\ m_res' = RatesOutcome(PList(InsertAt(m_act.l, pos, x)), m_exp)
    /\ UNCHANGED <<m_kind, m_exp>>
    /\ MatchFrame

\* the same rule on the actual rates with one rate taken away
RemoveRate ==
    /\ m_kind = "rates"
    /\ m_res # "unset"
    /\ \E pos \in 1..Len(m_act.l) :
        /\ m_act' = PList(RemoveAt(m_act.l, pos))
        /\ m_res' = RatesOutcome(PList(RemoveAt(m_act.l, pos)), m_exp)
    /\ UNCHANGED <<m_kind, m_exp>>
    /\ MatchFrame

NextMatch ==
    \/ ApplyMatch
    \/ ApplyRates
    \/ AddRate
    \/ RemoveRate

SpecMatch == InitMatch /\ [][NextMatch]_vars


\* ===================================================== extractor properties

\* No credential can be resolved: the variable is not in the environment and
\* .env is missing or gives no non-empty GEMINI_API_KEY.
NoCredential ==
    /\ environ = UNSET
    /\ dotenv.exists =>
         \A k \in 1..Len(dotenv.lines) :
            dotenv.lines[k].name = KeyName => dotenv.lines[k].value = ""

\* C1: a run that starts with no resolvable credential never issues a request
\* to the backend and ends with a non-zero status and nothing printed,
\* whatever the number of documents.
C1_NoCredentialNoCall ==
    NoCredential =>
        /\ [](calls = <<>>)
        /\ <>(o_pc = "exited" /\ o_exit # 0 /\ stdout = NoOutput)

C1_Witness ==
    /\ o_pc = "exited"
    /\ Len(argv) >= 2
    /\ o_i = 1
    /\ argv[1].exists
    /\ environ = UNSET
    /\ dotenv.exists
    /\ dotenv.lines # <<>>
    /\ calls = <<>>
    /\ o_exit = 1

\* v has every property of schema s, possibly null; at the top level it has
\* no other group.
RECURSIVE HasShape(_, _, _)
HasShape(v, s, top) ==
    IF s.type = "object"
    THEN /\ v.k = "obj"
         /\ DOMAIN s.properties \subseteq DOMAIN v.m
         /\ top => DOMAIN v.m \subseteq DOMAIN s.properties
         /\ \A p \in DOMAIN s.properties : HasShape(v.m[p], s.properties[p], FALSE)
    ELSE IF s.type = "array"
    THEN /\ v.k = "arr"
         /\ \A k \in 1..Len(v.a) : HasShape(v.a[k], s.items, FALSE)
    ELSE v.k \in {"scalar", "null"}

Conforms(v) == HasShape(v, SCHEMA, TRUE)

\* C2 as stated: every returned record has the shape of the schema, and a
\* payload that is not JSON or has another shape ends in an error with no
\* record for it.
C2_AsStated ==
    /\ \A j \in 1..Len(results) : Conforms(results[j])
    /\ \A j \in 1..Len(received) :
        (~JsonLoadsOk(received[j].text) \/ ~Conforms(JsonLoads(received[j].text)))
            => Len(results) < j /\ o_exit = 1

\* C2 amended: process() returns the decoded payload unchanged, whatever its
\* shape, so it has the schema's shape exactly when the payload has; a payload
\* that is not JSON ends the run in an error with no record for it and
\* nothing printed; what is printed is what process() returned.
C2_PayloadReturnedUnchecked ==
    /\ Len(results) <= Len(received)
    /\ \A j \in 1..Len(results) :
        /\ JsonLoadsOk(received[j].text)
        /\ results[j] = JsonLoads(received[j].text)
    /\ \A j \in 1..Len(received) :
        ~JsonLoadsOk(received[j].text)
            => Len(results) = j - 1 /\ o_pc = "exited" /\ o_exit = 1 /\ stdout = NoOutput
    /\ stdout.kind # "none" => stdout.recs = results

C2_Witness ==
    /\ o_exit = 0
    /\ stdout.kind = "list"
    /\ \E j \in 1..Len(stdout.recs) : ~Conforms(stdout.recs[j])
    /\ \E j \in 1..Len(stdout.recs) : Conforms(stdout.recs[j])

CredentialResolves == GetApiKeyOk(environ, dotenv)
AllAccepted == \A j \in 1..Len(received) : ResponseAccepted(received[j])
Missing == {j \in 1..Len(argv) : ~argv[j].exists}
FirstMissing == CHOOSE m \in Missing : \A j \in Missing : m <= j
Called(k) == \E c \in 1..Len(calls) : calls[c].doc = k

\* C3 as stated: with a credential and a well-behaved backend, when the run
\* has ended and some path was missing, every existing document was sent to
\* the backend and the records of all of them were printed.
C3_AsStated ==
    (o_pc = "exited" /\ CredentialResolves /\ AllAccepted /\ Missing # {})
        => /\ \A k \in 1..Len(argv) : argv[k].exists => Called(k)
           /\ stdout.kind # "none"
           /\ Len(stdout.recs) = Len(argv) - Cardinality(Missing)

\* C3 amended: a missing path aborts the whole invocation at that document.
\* The run exits non-zero there, nothing is ever printed (not even the
\* records of the documents before it), and no document after it is sent to
\* the backend; the documents before it were processed in order.
C3_MissingPathAbortsRun ==
    Missing # {} =>
        /\ stdout = NoOutput
        /\ o_exit \in {RUNNING, 1}
        /\ \A k \in 1..Len(argv) : Called(k) => k < FirstMissing
        /\ o_i <= FirstMissing
        /\ (o_pc = "exited" /\ CredentialResolves /\ AllAccepted)
              => /\ o_i = FirstMissing
                 /\ \A k \in 1..(FirstMissing - 1) : Called(k)
                 /\ Len(results) = FirstMissing - 1

C3_Witness ==
    /\ o_pc = "exited"
    /\ Len(argv) = 3
    /\ argv[1].exists /\ ~argv[2].exists /\ argv[3].exists
    /\ Len(calls) = 1
    /\ Len(results) = 1
    /\ stdout = NoOutput
    /\ o_exit = 1

\* C9: calls go out in argument order, at most one per document and none
\* after a failed one; the call for the next document is issued only when
\* the previous one has returned a record; when all succeed the records are
\* printed in argument order, bare when there is one document.
C9_OneCallPerDocumentInOrder ==
    /\ Len(calls) <= Len(argv)
    /\ \A k \in 1..Len(calls) : calls[k].doc = k
    /\ Len(received) <= Len(calls)
    /\ Len(calls) <= Len(results) + 1
    /\ (o_pc = "awaiting") = (Len(received) < Len(calls))
    /\ \A k \in 1..Len(received) :
        IF ResponseAccepted(received[k])
        THEN Len(results) >= k /\ results[k] = JsonLoads(received[k].text)
        ELSE Len(calls) = k /\ Len(results) = k - 1 /\ o_pc = "exited" /\ o_exit = 1
    /\ o_exit = 0 =>
        /\ Len(calls) = Len(argv)
        /\ Len(results) = Len(argv)
        /\ stdout.recs = results
        /\ stdout.kind = IF Len(argv) = 1 THEN "single" ELSE "list"

C9_Witness ==
    /\ o_exit = 0
    /\ Len(argv) = 3
    /\ stdout.kind = "list"
    /\ stdout.recs[1] # stdout.recs[2]
    /\ stdout.recs[2] # stdout.recs[3]
    /\ stdout.recs[1] # stdout.recs[3]
    /\ \A k \in 1..3 : calls[k].doc = k /\ stdout.recs[k] = JsonLoads(received[k].text)

\* ======================================================= harness properties
Expected == fixtures[idx].expected
AtCheck == h_pc = "checks" /\ ci <= Len(checks)
AtRates == h_pc = "checks" /\ ci > Len(checks)
CountersKept == passed' = passed /\ failed' = failed /\ errors' = errors
Counted == Cardinality({k \in 1..Len(checks) : checks[k].exp # PNone})

\* C4 as stated: a check whose expectation is null or absent (a scalar field,
\* tax_number or the tax rates) changes neither counter nor the error list,
\* and the harness goes on.
C4_AsStated ==
    [][((AtCheck /\ checks[ci].exp = PNone) \/ (AtRates /\ Get(Expected, "tax_rates") = PNone))
          => CountersKept /\ h_pc' \in {"checks", "return"}]_vars

\* C4 amended: for the twelve scalar fields and tax_number a null or absent
\* expectation skips the check (no counter moves, no message); the tax-rate
\* check is never skipped: with the key absent it runs against [] and counts
\* one pass, with the key null the harness raises TypeError and ends with no
\* report.
C4_SkipsFieldsNotRates ==
    /\ [](h_pc \in {"checks", "return"} /\ ocr = "ok" =>
            /\ Len(checks) = Len(CheckSpec) + (IF Truthy(Get(Expected, "tax_number")) THEN 1 ELSE 0)
            /\ \A k \in 1..Len(checks) :
                  checks[k].field = "issuer.tax_number" => checks[k].exp # PNone
            /\ h_pc = "return" => passed + failed = Counted + 1)
    /\ [][(AtCheck /\ checks[ci].exp = PNone)
            => CountersKept /\ ci' = ci + 1 /\ h_pc' = "checks"]_vars
    /\ [][(AtRates /\ "tax_rates" \notin DOMAIN Expected /\ result.taxes.k = "list")
            => passed' = passed + 1 /\ failed' = failed /\ errors' = errors /\ h_pc' = "return"]_vars
    /\ [][(AtRates /\ "tax_rates" \in DOMAIN Expected /\ Expected.tax_rates = PNone)
            => h_pc' = "crashed" /\ h_exit' = 1 /\ CountersKept]_vars

C4_Witness ==
    /\ h_pc = "return"
    /\ ocr = "ok"
    /\ idx = 2
    /\ "amounts_gross" \notin DOMAIN Expected
    /\ Counted = 12
    /\ passed + failed = 13

\* C5: a fatal extraction (non-zero exit, timeout, output that is not JSON)
\* gives that fixture exactly one failure, no pass and no field check, never
\* ends the harness, and the later fixtures are still run in order with their
\* checks counted as usual.
C5_FatalCountsOneFailure ==
    /\ ocr \in FatalOutcomes =>
        /\ h_pc # "crashed"
        /\ h_pc = "return" =>
             passed = 0 /\ failed = 1 /\ Len(errors) = 1 /\ checks = <<>> /\ ci = 0
    /\ (h_pc = "loop" /\ idx = 2 /\ h_log[1].fatal) =>
        total_passed = 0 /\ total_failed = 1 /\ Len(all_errors) = 1 /\ h_exit = RUNNING
    /\ (h_pc = "return" /\ ocr = "ok") => passed + failed = Counted + 1
    /\ Len(h_log) = (IF h_pc \in {"loop", "exited"} THEN idx - 1 ELSE idx)
    /\ \A k \in 1..Len(h_log) : h_log[k].path = fixtures[k].path
    /\ h_pc = "exited" => Len(h_log) = NumFixtures

C5_Witness ==
    /\ h_pc = "exited"
    /\ h_log[1].fatal
    /\ ~h_log[2].fatal
    /\ fixtures = EXAMPLES
    /\ total_failed = 1
    /\ total_passed = 14

\* C6: the harness decides its exit status only after the last fixture, and
\* the status is non-zero exactly when some check failed or some extraction
\* was fatal.
C6_ExitStatus ==
    /\ h_pc \notin {"exited", "crashed"} => h_exit = RUNNING
    /\ h_pc = "exited" =>
        /\ idx = NumFixtures + 1
        /\ Len(h_log) = NumFixtures
        /\ h_exit \in {0, 1}
        /\ (h_exit # 0) = (total_failed > 0)
        /\ total_failed = Len(all_errors)
        /\ (\E k \in 1..Len(h_log) : h_log[k].fatal) => h_exit = 1

C6_Witness ==
    /\ h_pc = "exited"
    /\ h_exit = 1
    /\ fixtures = EXAMPLES
    /\ total_failed = 1
    /\ total_passed = 26
    /\ all_errors[1].field = "amounts.gross"

\* C10: a field check whose expectation is a string and whose extracted value
\* is the empty string is counted as a pass, never as a failure.
C10_EmptyStringPasses ==
    [][(AtCheck /\ checks[ci].exp.k = "str" /\ checks[ci].actual = PStr(<<>>))
          => passed' = passed + 1 /\ failed' = failed /\ errors' = errors]_vars

C10_Witness ==
    /\ h_pc = "return"
    /\ ocr = "ok"
    /\ idx = 1
    /\ fixtures = EXAMPLES
    /\ \A fld \in Fields : result.f[fld] = PStr(<<>>)
    /\ passed = 10
    /\ failed = 3

\* ================================================= matching-rule properties
SameLetter(c, d) == c = d \/ {c, d} = {"a", "A"}
OccursIn(x, y) ==
    \E p \in 0..Len(y) :
        /\ p + Len(x) <= Len(y)
        /\ \A k \in 1..Len(x) : SameLetter(y[p + k], x[k])

FieldRule ==
    IF m_exp.k = "list" THEN m_act \in {m_exp.l[k] : k \in 1..Len(m_exp.l)}
    ELSE IF m_exp.k = "str" /\ m_act.k = "str"
    THEN OccursIn(m_exp.s, m_act.s) \/ OccursIn(m_act.s, m_exp.s)
    ELSE IF m_exp.k = "num" /\ m_act.k = "num"
    THEN m_act.n - m_exp.n \in {0 - 1, 0, 1}
    ELSE m_act = m_exp

\* C7: the rule is chosen by type in the order list, string/string,
\* number/number, otherwise equality: membership; containment in either
\* direction ignoring case; a difference under 0.02 (one hundredth accepted,
\* two and three rejected); strict equality.
C7_MatchRule ==
    (m_kind = "field" /\ m_res # "unset") => (m_res = "match") = FieldRule

C7_Witness ==
    /\ m_kind = "field"
    /\ m_exp = PNum(5000)
    /\ m_act = PNum(5002)
    /\ m_res = "nomatch"

Numeric(l) == \A k \in 1..Len(l) : l[k].k = "num"
Covered(act, exp) ==
    \A e \in 1..Len(exp) : \E a \in 1..Len(act) :
        /\ act[a].n - exp[e].n < RateTol
        /\ exp[e].n - act[a].n < RateTol
RatesDone == m_kind = "rates" /\ m_res # "unset"

\* C8: on numeric rates the tax-rate check passes exactly when every expected
\* rate has an actual rate less than one point away; one more actual rate
\* never turns a pass into a fail, and taking away a rate so that some
\* expected rate is left uncovered turns it into a fail.
C8_RatesCoverage ==
    /\ []((RatesDone /\ Numeric(m_act.l)) =>
            /\ m_res \in {"pass", "fail"}
            /\ (m_res = "pass") = Covered(m_act.l, m_exp.l))
    /\ [][(RatesDone /\ m_res = "pass" /\ Len(m_act'.l) > Len(m_act.l))
            => m_res' = "pass"]_vars
    /\ [][(RatesDone /\ m_res = "pass" /\ Numeric(m_act.l) /\ Len(m_act'.l) < Len(m_act.l)
             /\ ~Covered(m_act'.l, m_exp.l))
            => m_res' = "fail"]_vars

C8_Witness ==
    /\ m_kind = "rates"
    /\ m_exp = PList(<<PNum(1900), PNum(700)>>)
    /\ m_act = PList(<<PNum(1900), PNum(720), PNum(0)>>)
    /\ m_res = "pass"

====
